---- MODULE Spec2Model ----
(***************************************************************************)
(* Model of the Binance Futures Testnet order bot: the OrderRequest to     *)
(* wire-parameter conversion and the order placement client                *)
(* (bot/basic_bot.py) and the command-line dispatcher (main.py).           *)
(*                                                                         *)
(* Representation:                                                         *)
(*   - a Python str that the code transforms (symbol, side, order type)    *)
(*     and a command-line numeric text are sequences of one-character      *)
(*     strings; str values the code only passes along are TLA+ strings;    *)
(*   - Optional[T] is a set with at most one element: None is {} and a     *)
(*     present value v is {v};                                             *)
(*   - a dict is a function from its keys to its values;                   *)
(*   - the float of a small whole decimal is its integer value.            *)
(***************************************************************************)
EXTENDS Integers, Sequences, FiniteSets, TLC

VARIABLES
    pc,          \* position of the run
    argv,        \* the command line, one Optional text per flag
    args,        \* the argparse Namespace (the empty set before parsing)
    logging_configured, \* configure_logging has run
    bot,         \* a BasicBot (and its exchange client) has been constructed
    entered,     \* execute_order has been entered
    order,       \* the OrderRequest handed to place_order (Optional)
    sent,        \* the parameter mappings passed to futures_create_order, in order
    client_out,  \* what futures_create_order did: returned a response / raised
    place_out,   \* what place_order (hence execute_order) gave to its caller
    result       \* how main ended: returned a code / an exception escaped

vars == <<pc, argv, args, logging_configured, bot, entered, order, sent,
          client_out, place_out, result>>

----------------------------------------------------------------------------
(* Bounds *)

MaxExtra == 2      \* largest number of keys in an extra_params mapping
MaxExcId == 2      \* distinct exception objects of one class the client may raise
MaxOrderId == 2    \* distinct responses the client may return

----------------------------------------------------------------------------
(* Optional values *)

None == {}

Some(v) == {v}

Get(o) == CHOOSE v \in o : TRUE

----------------------------------------------------------------------------
(* Python str: upper() and the str values used by the program *)

LowerChars == <<"a","b","c","d","e","f","g","h","i","j","k","l","m",
                "n","o","p","q","r","s","t","u","v","w","x","y","z">>

UpperChars == <<"A","B","C","D","E","F","G","H","I","J","K","L","M",
                "N","O","P","Q","R","S","T","U","V","W","X","Y","Z">>

UpperChar(c) ==
    IF \E i \in DOMAIN LowerChars : LowerChars[i] = c
    THEN UpperChars[CHOOSE i \in DOMAIN LowerChars : LowerChars[i] = c]
    ELSE c

\* str.upper() with the case mapping dropped
UpperIdentity(s) == s

\* str.upper()
Upper(s) == [i \in DOMAIN s |-> UpperChar(s[i])]

MARKET == <<"M","A","R","K","E","T">>
LIMIT == <<"L","I","M","I","T">>
STOP == <<"S","T","O","P">>
STOP_MARKET == <<"S","T","O","P","_","M","A","R","K","E","T">>
STOP_LIMIT == <<"S","T","O","P","_","L","I","M","I","T">>
BUY == <<"B","U","Y">>
SELL == <<"S","E","L","L">>
BTCUSDT == <<"B","T","C","U","S","D","T">>

----------------------------------------------------------------------------
(* dict *)

EmptyDict == <<>>

\* params[k] = v
Put(d, k, v) == [x \in DOMAIN d \cup {k} |-> IF x = k THEN v ELSE d[x]]

\* dict.update with the argument's entries losing against existing keys
UpdateKeepExisting(d, e) ==
    [x \in DOMAIN d \cup DOMAIN e |-> IF x \in DOMAIN d THEN d[x] ELSE e[x]]

\* params.update(e): the entries of e are written over those of d
Update(d, e) ==
    [x \in DOMAIN d \cup DOMAIN e |-> IF x \in DOMAIN e THEN e[x] ELSE d[x]]

----------------------------------------------------------------------------
(* OrderRequest *)

\* the order types for which a time-in-force is attached, without STOP
TimeInForceTypesNoStop == {LIMIT, STOP_MARKET, STOP_LIMIT}

\* the order types for which to_request_params attaches timeInForce
TimeInForceTypes == {LIMIT, STOP, STOP_MARKET, STOP_LIMIT}

\* the dataclass constructor with its field defaults applied by the callers
OrderRequest(symbol, side, order_type, quantity, price, time_in_force, stop_price, reduce_only, extra_params) ==
    [symbol |-> symbol, side |-> side, order_type |-> order_type,
     quantity |-> quantity, price |-> price, time_in_force |-> time_in_force,
     stop_price |-> stop_price, reduce_only |-> reduce_only,
     extra_params |-> extra_params]

\* the keys and values computed from the fields, before extra_params is merged
ComputedParams(o) ==
    LET p0 == [k \in {"symbol", "side", "type", "quantity"} |->
                 CASE k = "symbol" -> Upper(o.symbol)
                   [] k = "side" -> Upper(o.side)
                   [] k = "type" -> Upper(o.order_type)
                   [] k = "quantity" -> o.quantity]
        p1 == IF o.price # None THEN Put(p0, "price", Get(o.price)) ELSE p0
        p2 == IF Upper(o.order_type) \in TimeInForceTypes
              THEN Put(p1, "timeInForce", o.time_in_force) ELSE p1
        p3 == IF o.stop_price # None
              THEN Put(p2, "stopPrice", Get(o.stop_price)) ELSE p2
        p4 == IF o.reduce_only # None
              THEN Put(p3, "reduceOnly", Get(o.reduce_only)) ELSE p3
    IN  p4

\* to_request_params sending an unset reduce_only as a false flag
to_request_params_always_reduce(o) ==
    LET p == ComputedParams(o)
        q == IF o.reduce_only = None THEN Put(p, "reduceOnly", FALSE) ELSE p
    IN  Update(q, o.extra_params)

to_request_params(o) == Update(ComputedParams(o), o.extra_params)

----------------------------------------------------------------------------
(* BasicBot convenience wrappers: the OrderRequest each one builds.  price, *)
(* stop_price, reduce_only and extra_params are passed as the caller's      *)
(* Optional values.                                                         *)

place_market_order(symbol, side, quantity, reduce_only, extra_params) ==
    OrderRequest(symbol, side, MARKET, quantity, None, "GTC", None,
                 reduce_only,
                 IF extra_params # None THEN Get(extra_params) ELSE EmptyDict)

place_limit_order(symbol, side, quantity, price, time_in_force, reduce_only, extra_params) ==
    OrderRequest(symbol, side, LIMIT, quantity, price, time_in_force,
                 None, reduce_only,
                 IF extra_params # None THEN Get(extra_params) ELSE EmptyDict)

\* the stop-limit wrapper without its fixed working type
place_stop_limit_order_plain(symbol, side, quantity, price, stop_price, time_in_force, reduce_only, extra_params) ==
    OrderRequest(symbol, side, STOP, quantity, price, time_in_force,
                 stop_price, reduce_only,
                 IF extra_params # None THEN Get(extra_params) ELSE EmptyDict)

place_stop_limit_order(symbol, side, quantity, price, stop_price, time_in_force, reduce_only, extra_params) ==
    OrderRequest(symbol, side, STOP, quantity, price, time_in_force,
                 stop_price, reduce_only,
                 Update([k \in {"workingType"} |-> "CONTRACT_PRICE"],
                        IF extra_params # None THEN Get(extra_params)
                        ELSE EmptyDict))

----------------------------------------------------------------------------
(* Exceptions: the classes that occur and their base classes *)

ApiErrors == {"BinanceAPIException", "BinanceOrderException"}

Bases(cls) ==
    CASE cls \in ApiErrors -> {cls, "Exception", "BaseException"}
      [] cls = "ValueError" -> {cls, "Exception", "BaseException"}
      [] cls = "UnicodeEncodeError" ->
             {cls, "UnicodeError", "ValueError", "Exception", "BaseException"}
      [] cls = "ConnectionError" ->
             {cls, "OSError", "Exception", "BaseException"}
      [] cls = "InvalidOperation" ->
             {cls, "DecimalException", "ArithmeticError", "Exception",
              "BaseException"}
      [] cls = "KeyboardInterrupt" -> {cls, "BaseException"}
      [] cls = "SystemExit" -> {cls, "BaseException"}
      [] OTHER -> {cls}

\* isinstance(exc, classes)
IsInstance(cls, classes) == Bases(cls) \cap classes # {}

\* the exception classes futures_create_order may raise
ClientErrors ==
    ApiErrors \cup {"UnicodeEncodeError", "ConnectionError", "KeyboardInterrupt"}

\* what a call did: nothing yet, returned the response id, raised exception id
\* of class cls (id 0 is an exception created by this program)
NoOutcome == [kind |-> "none", cls |-> "", id |-> 0]

Returned(id) == [kind |-> "return", cls |-> "dict", id |-> id]

Raised(cls, id) == [kind |-> "raise", cls |-> cls, id |-> id]

\* how main ended
Running == [kind |-> "running", code |-> None, cls |-> "", id |-> 0]

Return(code) == [kind |-> "return", code |-> Some(code), cls |-> "", id |-> 0]

Escaped(cls, id, code) == [kind |-> "escape", code |-> code, cls |-> cls, id |-> id]

----------------------------------------------------------------------------
(* PositiveDecimal: Decimal(values), the sign test, float(value) *)

Digits == <<"0","1","2","3","4","5","6","7","8","9">>

IsDigit(c) == \E i \in DOMAIN Digits : Digits[i] = c

DigitVal(c) == (CHOOSE i \in DOMAIN Digits : Digits[i] = c) - 1

RECURSIVE DigitsValue(_)
DigitsValue(s) ==
    IF s = <<>> THEN 0
    ELSE DigitsValue(SubSeq(s, 1, Len(s) - 1)) * 10 + DigitVal(s[Len(s)])

\* Decimal(text) for the whole-number and NaN forms; any other text is taken
\* as one Decimal rejects (InvalidOperation)
ParseDecimal(text) ==
    LET signed == Len(text) > 0 /\ text[1] \in {"-", "+"}
        body == IF signed THEN SubSeq(text, 2, Len(text)) ELSE text
    IN  IF Upper(body) = <<"N","A","N">>
        THEN [kind |-> "nan", value |-> 0]
        ELSE IF Len(body) > 0 /\ \A i \in DOMAIN body : IsDigit(body[i])
        THEN [kind |-> "num",
              value |-> IF signed /\ text[1] = "-"
                        THEN 0 - DigitsValue(body) ELSE DigitsValue(body)]
        ELSE [kind |-> "invalid", value |-> 0]

\* the sign test with zero let through
IsNonPositiveStrict(v) == v < 0

\* value <= 0
IsNonPositive(v) == v <= 0

\* _parse_positive_decimal: "error" is parser.error, "raise" is the
\* InvalidOperation of an ordering comparison with NaN, "ok" a value
ParsePositiveDecimal(text) ==
    LET d == ParseDecimal(text)
    IN  CASE d.kind = "invalid" -> "error"
          [] d.kind = "nan" -> "raise"
          [] OTHER -> IF IsNonPositive(d.value) THEN "error" ELSE "ok"

\* float(value) of an accepted text
FloatOf(text) == ParseDecimal(text).value

----------------------------------------------------------------------------
(* build_parser / parse_args *)

NumFlags == {"quantity", "price", "stop_price"}

SideChoices == {BUY, SELL}

TypeChoices == {MARKET, LIMIT, STOP_LIMIT}

TimeInForceChoices == {"GTC", "IOC", "FOK", "GTX"}

\* the ways parse_args can end on a command line; which failing flag is met
\* first depends on the order of the flags on the command line
ParseOutcomes(av) ==
    LET given == {f \in NumFlags : av[f] # None}
        numError == \E f \in given : ParsePositiveDecimal(Get(av[f])) = "error"
        numRaise == \E f \in given : ParsePositiveDecimal(Get(av[f])) = "raise"
        choiceError ==
            \/ av.side # None /\ Get(av.side) \notin SideChoices
            \/ av.order_type # None /\ Get(av.order_type) \notin TypeChoices
            \/ av.time_in_force # None
                 /\ Get(av.time_in_force) \notin TimeInForceChoices
    IN  IF numError \/ numRaise \/ choiceError
        THEN (IF numError \/ choiceError THEN {"error"} ELSE {})
             \cup (IF numRaise THEN {"raise"} ELSE {})
        ELSE IF av.side = None \/ av.quantity = None
        THEN {"error"}
        ELSE {"ok"}

\* the Namespace of an accepted command line, defaults applied
Namespace(av) ==
    [symbol |-> IF av.symbol # None THEN Get(av.symbol) ELSE BTCUSDT,
     side |-> Get(av.side),
     order_type |-> IF av.order_type # None THEN Get(av.order_type) ELSE MARKET,
     quantity |-> FloatOf(Get(av.quantity)),
     price |-> IF av.price # None THEN Some(FloatOf(Get(av.price))) ELSE None,
     stop_price |-> IF av.stop_price # None
                    THEN Some(FloatOf(Get(av.stop_price))) ELSE None,
     time_in_force |-> IF av.time_in_force # None
                       THEN Get(av.time_in_force) ELSE "GTC",
     reduce_only |-> av.reduce_only]

----------------------------------------------------------------------------
(* execute_order: the ValueError it raises, or the OrderRequest that the    *)
(* convenience call it dispatches to hands to place_order                   *)

\* execute_order with the stop price of a STOP_LIMIT order left unchecked
execute_order_unchecked_stop(ns) ==
    LET reduce_only == IF ns.reduce_only THEN Some(TRUE) ELSE None
    IN  CASE ns.order_type = LIMIT ->
               IF ns.price = None
               THEN [raised |-> TRUE, order |-> None]
               ELSE [raised |-> FALSE,
                     order |-> Some(place_limit_order(ns.symbol, ns.side,
                                  ns.quantity, ns.price, ns.time_in_force,
                                  reduce_only, None))]
          [] ns.order_type = STOP_LIMIT ->
               IF ns.price = None
               THEN [raised |-> TRUE, order |-> None]
               ELSE [raised |-> FALSE,
                     order |-> Some(place_stop_limit_order(ns.symbol, ns.side,
                                  ns.quantity, ns.price, ns.stop_price,
                                  ns.time_in_force, reduce_only, None))]
          [] OTHER ->
               [raised |-> FALSE,
                order |-> Some(place_market_order(ns.symbol, ns.side,
                                 ns.quantity, reduce_only, None))]

execute_order(ns) ==
    LET reduce_only == IF ns.reduce_only THEN Some(TRUE) ELSE None
    IN  CASE ns.order_type = LIMIT ->
               IF ns.price = None
               THEN [raised |-> TRUE, order |-> None]
               ELSE [raised |-> FALSE,
                     order |-> Some(place_limit_order(ns.symbol, ns.side,
                                  ns.quantity, ns.price, ns.time_in_force,
                                  reduce_only, None))]
          [] ns.order_type = STOP_LIMIT ->
               IF ns.price = None \/ ns.stop_price = None
               THEN [raised |-> TRUE, order |-> None]
               ELSE [raised |-> FALSE,
                     order |-> Some(place_stop_limit_order(ns.symbol, ns.side,
                                  ns.quantity, ns.price, ns.stop_price,
                                  ns.time_in_force, reduce_only, None))]
          [] OTHER ->
               [raised |-> FALSE,
                order |-> Some(place_market_order(ns.symbol, ns.side,
                                 ns.quantity, reduce_only, None))]

----------------------------------------------------------------------------
(* place_order and main: what each gives its caller *)

\* place_order answering an exchange error with an empty response
place_order_outcome_swallow(out) ==
    IF out.kind = "raise" /\ IsInstance(out.cls, ApiErrors)
    THEN Returned(0)
    ELSE out

\* place_order after the network call: the response is returned, an
\* exchange error or any other Exception is logged and raised again, and
\* anything else passes through
place_order_outcome(out) ==
    IF out.kind = "return" THEN out
    ELSE IF IsInstance(out.cls, ApiErrors) THEN out
    ELSE IF IsInstance(out.cls, {"Exception"}) THEN out
    ELSE out

\* main handling only the API exception as an exchange error
main_outcome_api_only(out) ==
    IF out.kind = "return" THEN Return(0)
    ELSE IF IsInstance(out.cls, {"BinanceAPIException"}) THEN Return(1)
    ELSE IF IsInstance(out.cls, {"ValueError"}) THEN Return(2)
    ELSE IF IsInstance(out.cls, {"Exception"}) THEN Return(3)
    ELSE Escaped(out.cls, out.id, None)

\* main after execute_order: the try/except and the return code
main_outcome(out) ==
    IF out.kind = "return" THEN Return(0)
    ELSE IF IsInstance(out.cls, ApiErrors) THEN Return(1)
    ELSE IF IsInstance(out.cls, {"ValueError"}) THEN Return(2)
    ELSE IF IsInstance(out.cls, {"Exception"}) THEN Return(3)
    ELSE Escaped(out.cls, out.id, None)

----------------------------------------------------------------------------
(* Inputs *)

Opt(S) == {None} \cup {Some(x) : x \in S}

\* texts given to --quantity, --price and --stop-price
NumTexts == {<<"1">>, <<"1","0","0">>, <<"9","5">>, <<"-","5">>, <<"0">>,
             <<"x">>, <<"N","a","N">>}

\* command lines; --api-key and --api-secret are taken as given
CommandLines ==
    [symbol : Opt({<<"b","t","c">>}),
     side : Opt({BUY, SELL, <<"b","u","y">>}),
     order_type : Opt({MARKET, LIMIT, STOP_LIMIT, STOP}),
     quantity : Opt(NumTexts),
     price : Opt(NumTexts),
     stop_price : Opt(NumTexts),
     time_in_force : Opt({"IOC"}),
     reduce_only : BOOLEAN]

NoCommandLine ==
    [symbol |-> None, side |-> None, order_type |-> None, quantity |-> None,
     price |-> None, stop_price |-> None, time_in_force |-> None,
     reduce_only |-> FALSE]

\* the values a caller may put under each key of extra_params
ExtraValue(k) ==
    CASE k = "symbol" -> <<"e","t","h">>
      [] k = "side" -> <<"s","e","l","l">>
      [] k = "timeInForce" -> "FOK"
      [] k = "reduceOnly" -> TRUE
      [] k = "price" -> 7
      [] k = "workingType" -> "MARK_PRICE"

ExtraKeys == {"symbol", "side", "timeInForce", "reduceOnly", "price", "workingType"}

ExtraParams ==
    {[k \in K |-> ExtraValue(k)] :
        K \in {K \in SUBSET ExtraKeys : Cardinality(K) <= MaxExtra}}

\* OrderRequest objects a caller of place_order may build
OrderRequests ==
    {OrderRequest(sy, sd, ty, 1, pr, tif, sp, ro, ex) :
        sy \in {<<"b","t","c">>, BTCUSDT},
        sd \in {BUY, <<"s","e","l","l">>},
        ty \in {MARKET, LIMIT, <<"l","i","m","i","t">>, STOP, STOP_MARKET,
                STOP_LIMIT},
        pr \in Opt({100}),
        tif \in {"GTC", "IOC"},
        sp \in Opt({95}),
        ro \in Opt(BOOLEAN),
        ex \in ExtraParams}

----------------------------------------------------------------------------
(* The command-line run: main *)

Init ==
    /\ pc = "parse"
    /\ argv \in CommandLines
    /\ args = None
    /\ logging_configured = FALSE
    /\ bot = FALSE
    /\ entered = FALSE
    /\ order = None
    /\ sent = <<>>
    /\ client_out = NoOutcome
    /\ place_out = NoOutcome
    /\ result = Running

\* parser.parse_args(argv): a Namespace, or parser.error (SystemExit with
\* status 2), or an exception out of a PositiveDecimal action
Parse ==
    /\ pc = "parse"
    /\ \E out \in ParseOutcomes(argv) :
         \/ /\ out = "ok"
            /\ args' = Some(Namespace(argv))
            /\ pc' = "configure"
            /\ UNCHANGED result
         \/ /\ out = "error"
            /\ result' = Escaped("SystemExit", 0, Some(2))
            /\ pc' = "done"
            /\ UNCHANGED args
         \/ /\ out = "raise"
            /\ result' = Escaped("InvalidOperation", 0, None)
            /\ pc' = "done"
            /\ UNCHANGED args
    /\ UNCHANGED <<argv, logging_configured, bot, entered, order, sent,
                   client_out, place_out>>

ConfigureLogging ==
    /\ pc = "configure"
    /\ logging_configured' = TRUE
    /\ pc' = "construct"
    /\ UNCHANGED <<argv, args, bot, entered, order, sent, client_out,
                   place_out, result>>

\* BasicBot(args.api_key, args.api_secret, testnet=True)
ConstructBot ==
    /\ pc = "construct"
    /\ bot' = TRUE
    /\ pc' = "execute"
    /\ UNCHANGED <<argv, args, logging_configured, entered, order, sent,
                   client_out, place_out, result>>

\* execute_order up to the ValueError or to the entry of place_order
ExecuteOrder ==
    /\ pc = "execute"
    /\ entered' = TRUE
    /\ LET e == execute_order(Get(args))
       IN  IF e.raised
           THEN /\ place_out' = Raised("ValueError", 0)
                /\ pc' = "handle"
                /\ UNCHANGED order
           ELSE /\ order' = e.order
                /\ pc' = "place_order"
                /\ UNCHANGED place_out
    /\ UNCHANGED <<argv, args, logging_configured, bot, sent, client_out,
                   result>>

\* place_order: the request parameters are built and futures_create_order is
\* called with them
PlaceOrderSend ==
    /\ pc = "place_order"
    /\ sent' = Append(sent, to_request_params(Get(order)))
    /\ pc' = "network"
    /\ UNCHANGED <<argv, args, logging_configured, bot, entered, order,
                   client_out, place_out, result>>

\* the exchange client answers the call with a response
ClientReturns ==
    /\ pc = "network"
    /\ \E id \in 1..MaxOrderId : client_out' = Returned(id)
    /\ pc' = "place_finish"
    /\ UNCHANGED <<argv, args, logging_configured, bot, entered, order, sent,
                   place_out, result>>

\* the exchange client answers the call with an exception
ClientRaises ==
    /\ pc = "network"
    /\ \E cls \in ClientErrors, id \in 1..MaxExcId :
         client_out' = Raised(cls, id)
    /\ pc' = "place_finish"
    /\ UNCHANGED <<argv, args, logging_configured, bot, entered, order, sent,
                   place_out, result>>

\* place_order returns or raises to its caller
PlaceOrderFinish ==
    /\ pc = "place_finish"
    /\ place_out' = place_order_outcome(client_out)
    /\ pc' = "handle"
    /\ UNCHANGED <<argv, args, logging_configured, bot, entered, order, sent,
                   client_out, result>>

\* main: the except clauses, the summary and the return code
MainFinish ==
    /\ pc = "handle"
    /\ result' = main_outcome(place_out)
    /\ pc' = "done"
    /\ UNCHANGED <<argv, args, logging_configured, bot, entered, order, sent,
                   client_out, place_out>>

Next ==
    \/ Parse
    \/ ConfigureLogging
    \/ ConstructBot
    \/ ExecuteOrder
    \/ PlaceOrderSend
    \/ ClientReturns
    \/ ClientRaises
    \/ PlaceOrderFinish
    \/ MainFinish

Spec == Init /\ [][Next]_vars

----------------------------------------------------------------------------
(* A direct call of place_order on a bot, with any OrderRequest *)

InitPlaceOrder ==
    /\ pc = "place_order"
    /\ argv = NoCommandLine
    /\ args = None
    /\ logging_configured = FALSE
    /\ bot = TRUE
    /\ entered = FALSE
    /\ order \in {Some(o) : o \in OrderRequests}
    /\ sent = <<>>
    /\ client_out = NoOutcome
    /\ place_out = NoOutcome
    /\ result = Running

NextPlaceOrder ==
    \/ PlaceOrderSend
    \/ ClientReturns
    \/ ClientRaises
    \/ PlaceOrderFinish

SpecPlaceOrder == InitPlaceOrder /\ [][NextPlaceOrder]_vars

----------------------------------------------------------------------------
(* Properties *)

\* the OrderRequest of the run and the i-th mapping passed to the client
Req == Get(order)

IsUpperStr(s) ==
    \A i \in DOMAIN s : \A j \in DOMAIN LowerChars : s[i] # LowerChars[j]

\* --type LIMIT without --price, or --type STOP_LIMIT without --price or
\* without --stop-price
MissingPrice(av) ==
    \/ av.order_type = Some(LIMIT) /\ av.price = None
    \/ av.order_type = Some(STOP_LIMIT)
         /\ (av.price = None \/ av.stop_price = None)

\* a text that is not a strictly positive number
NotStrictlyPositive(text) ==
    LET d == ParseDecimal(text) IN ~(d.kind = "num" /\ d.value > 0)

\* C1 as stated: the parameters contain timeInForce when the order type is
\* LIMIT or STOP and do not contain it when the order type is MARKET,
\* whatever extra_params holds.
C1_Original ==
    \A i \in DOMAIN sent :
        /\ Req.order_type \in {LIMIT, STOP} => "timeInForce" \in DOMAIN sent[i]
        /\ Req.order_type = MARKET => "timeInForce" \notin DOMAIN sent[i]

\* C1 amended: the parameters contain timeInForce when the order type is
\* LIMIT or STOP; when it is MARKET they contain timeInForce exactly when
\* extra_params supplies that key.
C1_TimeInForce ==
    \A i \in DOMAIN sent :
        /\ Req.order_type \in {LIMIT, STOP} => "timeInForce" \in DOMAIN sent[i]
        /\ Req.order_type = MARKET =>
             ("timeInForce" \in DOMAIN sent[i]
                <=> "timeInForce" \in DOMAIN Req.extra_params)

C1_Witness ==
    /\ Len(sent) = 1
    /\ Req.order_type = MARKET
    /\ "timeInForce" \in DOMAIN Req.extra_params
    /\ "timeInForce" \in DOMAIN sent[1]

\* C2 as stated: the parameters contain reduceOnly if and only if the
\* reduce_only field was set, whatever extra_params holds.
C2_Original ==
    \A i \in DOMAIN sent :
        "reduceOnly" \in DOMAIN sent[i] <=> Req.reduce_only # None

\* C2 amended: the parameters contain reduceOnly if and only if the
\* reduce_only field was set (true or false) or extra_params supplies the
\* key reduceOnly.
C2_ReduceOnly ==
    \A i \in DOMAIN sent :
        "reduceOnly" \in DOMAIN sent[i]
          <=> (Req.reduce_only # None
                 \/ "reduceOnly" \in DOMAIN Req.extra_params)

C2_Witness ==
    /\ Len(sent) = 1
    /\ Req.reduce_only = None
    /\ "reduceOnly" \notin DOMAIN Req.extra_params
    /\ "reduceOnly" \notin DOMAIN sent[1]

\* C3: every key of extra_params has its extra_params value in the
\* parameters, computed keys included, and every computed key that
\* extra_params does not hold has the value computed from the fields.
C3_ExtraOverrides ==
    \A i \in DOMAIN sent :
        LET p == sent[i]
            e == Req.extra_params
            kept(k) == k \notin DOMAIN e
        IN  /\ \A k \in DOMAIN e : k \in DOMAIN p /\ p[k] = e[k]
            /\ kept("symbol") => p["symbol"] = Upper(Req.symbol)
            /\ kept("side") => p["side"] = Upper(Req.side)
            /\ kept("type") => p["type"] = Upper(Req.order_type)
            /\ kept("quantity") => p["quantity"] = Req.quantity
            /\ kept("price") /\ Req.price # None =>
                 "price" \in DOMAIN p /\ p["price"] = Get(Req.price)
            /\ kept("stopPrice") /\ Req.stop_price # None =>
                 "stopPrice" \in DOMAIN p /\ p["stopPrice"] = Get(Req.stop_price)
            /\ kept("reduceOnly") /\ Req.reduce_only # None =>
                 "reduceOnly" \in DOMAIN p
                   /\ p["reduceOnly"] = Get(Req.reduce_only)
            /\ kept("timeInForce")
                 /\ Upper(Req.order_type) \in {LIMIT, STOP, STOP_MARKET, STOP_LIMIT} =>
                 "timeInForce" \in DOMAIN p
                   /\ p["timeInForce"] = Req.time_in_force

C3_Witness ==
    /\ Len(sent) = 1
    /\ Req.price = Some(100)
    /\ DOMAIN Req.extra_params = {"price", "symbol"}
    /\ sent[1]["price"] = 7
    /\ sent[1]["side"] = SELL

\* C4: a run of an accepted command line with --type LIMIT and no --price,
\* or --type STOP_LIMIT and --price or --stop-price missing, ends with main
\* returning 2, and futures_create_order is not called at any point of a run
\* of such a command line.
C4_MissingPriceExit2 ==
    MissingPrice(argv) =>
        /\ sent = <<>>
        /\ pc = "done" /\ args # None => result = Return(2)

C4_Witness ==
    /\ pc = "done"
    /\ args # None
    /\ argv.order_type = Some(STOP_LIMIT)
    /\ argv.price # None
    /\ argv.stop_price = None
    /\ result = Return(2)

\* --type STOP_LIMIT --price 100 --stop-price 95 --quantity 1, without
\* --reduce-only and --time-in-force
StopLimitExample(av) ==
    /\ av.order_type = Some(STOP_LIMIT)
    /\ av.price = Some(<<"1","0","0">>)
    /\ av.stop_price = Some(<<"9","5">>)
    /\ av.quantity = Some(<<"1">>)
    /\ av.time_in_force = None
    /\ ~av.reduce_only

\* C5: the run of the stop-limit example calls futures_create_order with
\* exactly the keys symbol, side, type, quantity, price, stopPrice,
\* timeInForce, workingType, with type STOP, price 100, stopPrice 95,
\* timeInForce GTC and workingType CONTRACT_PRICE.
C5_StopLimitParams ==
    StopLimitExample(argv) =>
        /\ \A i \in DOMAIN sent :
             /\ DOMAIN sent[i] = {"symbol", "side", "type", "quantity", "price",
                                  "stopPrice", "timeInForce", "workingType"}
             /\ sent[i]["type"] = STOP
             /\ sent[i]["quantity"] = 1
             /\ sent[i]["price"] = 100
             /\ sent[i]["stopPrice"] = 95
             /\ sent[i]["timeInForce"] = "GTC"
             /\ sent[i]["workingType"] = "CONTRACT_PRICE"
        /\ pc = "done" /\ args # None => Len(sent) = 1

C5_Witness ==
    /\ StopLimitExample(argv)
    /\ pc = "done"
    /\ Len(sent) = 1
    /\ sent[1]["workingType"] = "CONTRACT_PRICE"

\* C6: when futures_create_order raised an exchange API exception or an
\* exchange order exception, main returns 1 (no exception escapes it), for
\* every order type.
C6_ExchangeErrorExit1 ==
    pc = "done" /\ client_out.kind = "raise" /\ client_out.cls \in ApiErrors
        => result = Return(1)

C6_Witness ==
    /\ pc = "done"
    /\ client_out = Raised("BinanceOrderException", 1)
    /\ Req.order_type = STOP
    /\ result = Return(1)

\* C7 as stated: main returns 2 only when no network call was made, and
\* every exception raised by the network call that is not an exchange
\* API/order exception makes main return 3.
C7_ExitCodes ==
    /\ result = Return(2) => sent = <<>>
    /\ pc = "done" /\ client_out.kind = "raise"
         /\ client_out.cls \notin ApiErrors => result = Return(3)

\* C8: when the text given to --quantity, --price or --stop-price is not a
\* strictly positive number, the run ends inside argument parsing: no
\* Namespace is produced, logging is not configured, no bot is constructed,
\* execute_order is not entered and futures_create_order is not called.
C8_RejectedAtParse ==
    (\E f \in NumFlags : argv[f] # None /\ NotStrictlyPositive(Get(argv[f])))
        => /\ args = None
           /\ ~logging_configured
           /\ ~bot
           /\ ~entered
           /\ sent = <<>>
           /\ pc \in {"parse", "done"}
           /\ pc = "done" => result.kind = "escape"

C8_Witness ==
    /\ pc = "done"
    /\ argv.quantity = Some(<<"-","5">>)
    /\ result = Escaped("SystemExit", 0, Some(2))
    /\ ~logging_configured

\* C9: futures_create_order is called at most once in a run, and exactly
\* once in a finished run whose command line was accepted and passed the
\* cross-validation; place_order gives its caller the very response the
\* call returned or the very exception it raised.
C9_SingleCall ==
    /\ Len(sent) <= 1
    /\ pc = "done" => (Len(sent) = 1 <=> (args # None /\ ~MissingPrice(argv)))
    /\ pc \in {"handle", "done"} /\ Len(sent) = 1 =>
         client_out.kind # "none" /\ place_out = client_out

C9_Witness ==
    /\ pc = "done"
    /\ Len(sent) = 1
    /\ client_out = Raised("BinanceAPIException", 2)
    /\ place_out = client_out

\* C10 as stated: in every mapping passed to futures_create_order the values
\* of symbol and side are uppercase strings, whatever extra_params holds.
C10_Original ==
    \A i \in DOMAIN sent :
        IsUpperStr(sent[i]["symbol"]) /\ IsUpperStr(sent[i]["side"])

\* C10 amended: in every mapping passed to futures_create_order the value of
\* symbol is an uppercase string unless extra_params holds the key symbol,
\* and likewise for side; a key that extra_params holds is passed with the
\* value extra_params gives it.
C10_Uppercase ==
    \A i \in DOMAIN sent :
        \A k \in {"symbol", "side"} :
            IF k \in DOMAIN Req.extra_params
            THEN sent[i][k] = Req.extra_params[k]
            ELSE IsUpperStr(sent[i][k])

C10_Witness ==
    /\ Len(sent) = 1
    /\ Req.symbol = <<"b","t","c">>
    /\ Req.side = <<"s","e","l","l">>
    /\ DOMAIN Req.extra_params \cap {"symbol", "side"} = {}
    /\ sent[1]["symbol"] = <<"B","T","C">>

====
